---- MODULE Spec2Model ----
(***************************************************************************)
(* Model of the cluster workload scheduler (namanarora00/scheduler).       *)
(*                                                                         *)
(* The specifications of this module share its variables:                  *)
(*   SpecCore    the pure placement engine (SchedulerCore,                 *)
(*               ResourceManager) applied to bounded cluster snapshots and *)
(*               to the literal scenarios of tests/test_scheduler.py;      *)
(*   Spec        the workers (worker.process_deployment driving            *)
(*               SchedulerService.try_schedule_deployment), the store, the *)
(*               job queue and the per-cluster Redis lock, on the first    *)
(*               cluster;                                                  *)
(*   SpecApi     two concurrent calls of create_deployment;                *)
(*   SpecSecond  the workers on the second, larger cluster;                *)
(*   SpecBoth    the workers with jobs of both clusters;                   *)
(*   SpecFair    the workers on the first cluster under weak fairness.     *)
(***************************************************************************)
EXTENDS Integers, Sequences, FiniteSets, TLC

(***************************************************************************)
(* Bounds of the model.                                                    *)
(***************************************************************************)
\* largest ram need of an enumerated deployment
MaxRam == 2
\* longest enumerated running list of a cluster snapshot
MaxRunning == 2
\* most jobs the queue holds at once
MaxQueue == 3

(***************************************************************************)
(* Program constants: DeploymentPriority (app/db/models/deployment.py).    *)
(***************************************************************************)
LOWEST == 1
LOW == 2
MEDIUM == 3
HIGH == 4
HIGHEST == 5

(***************************************************************************)
(* ResourceSpec, DeploymentInfo, ClusterInfo (scheduler_service.py 12-32). *)
(***************************************************************************)
ResourceSpec(r, c, g) == [ram |-> r, cpu |-> c, gpu |-> g]

DeploymentInfo(i, r, c, g, p) ==
    [id |-> i, resources |-> ResourceSpec(r, c, g), priority |-> p]

ClusterInfo(r, c, g, running) ==
    [resources |-> ResourceSpec(r, c, g), running_deployments |-> running]

(***************************************************************************)
(* ResourceManager.                                                        *)
(***************************************************************************)
RECURSIVE SumRam(_), SumCpu(_), SumGpu(_)
SumRam(deployments) ==
    IF deployments = <<>> THEN 0
    ELSE Head(deployments).resources.ram + SumRam(Tail(deployments))

SumCpu(deployments) ==
    IF deployments = <<>> THEN 0
    ELSE Head(deployments).resources.cpu + SumCpu(Tail(deployments))

SumGpu(deployments) ==
    IF deployments = <<>> THEN 0
    ELSE Head(deployments).resources.gpu + SumGpu(Tail(deployments))

\* mutant: the gpu needs are not added up
calculate_used_resources_no_gpu(deployments) ==
    ResourceSpec(SumRam(deployments), SumCpu(deployments), 0)

calculate_used_resources(deployments) ==
    ResourceSpec(SumRam(deployments), SumCpu(deployments), SumGpu(deployments))

\* mutant: the gpu dimension is not compared
can_fit_deployment_no_gpu(deployment, available) ==
    /\ deployment.resources.ram <= available.ram
    /\ deployment.resources.cpu <= available.cpu

\* mutant: strict comparison, an exact fit is refused
can_fit_deployment_strict(deployment, available) ==
    /\ deployment.resources.ram < available.ram
    /\ deployment.resources.cpu < available.cpu
    /\ deployment.resources.gpu < available.gpu

can_fit_deployment(deployment, available) ==
    /\ deployment.resources.ram <= available.ram
    /\ deployment.resources.cpu <= available.cpu
    /\ deployment.resources.gpu <= available.gpu

calculate_resource_utilization(resources) ==
    resources.ram + resources.cpu + resources.gpu

(***************************************************************************)
(* SchedulerCore.find_preemptible_deployments.                             *)
(***************************************************************************)
\* mutant: deployments of the same priority are candidates too
PreemptionCandidates_not_higher(running_deployments, required_deployment) ==
    SelectSeq(running_deployments,
              LAMBDA d : d.priority <= required_deployment.priority)

\* the candidates: running deployments of lower priority (lines 83-86)
PreemptionCandidates(running_deployments, required_deployment) ==
    SelectSeq(running_deployments,
              LAMBDA d : d.priority < required_deployment.priority)

\* mutant: ascending utilization
SortKeyLess_ascending(a, b) ==
    LET ua == a.resources.ram + a.resources.cpu + a.resources.gpu
        ub == b.resources.ram + b.resources.cpu + b.resources.gpu
    IN  \/ ua < ub
        \/ ua = ub /\ a.priority < b.priority

\* the sort key (-utilization, priority) of lines 119-122, compared as
\* Python compares tuples
SortKeyLess(a, b) ==
    LET ua == calculate_resource_utilization(a.resources)
        ub == calculate_resource_utilization(b.resources)
    IN  \/ ua > ub
        \/ ua = ub /\ a.priority < b.priority

\* sorted() is stable: an element goes after every element whose key is not
\* greater than its own
RECURSIVE InsertSorted(_, _)
InsertSorted(d, s) ==
    IF s = <<>> THEN <<d>>
    ELSE IF SortKeyLess(d, Head(s)) THEN <<d>> \o s
    ELSE <<Head(s)>> \o InsertSorted(d, Tail(s))

RECURSIVE SortCandidates(_)
SortCandidates(candidates) ==
    IF candidates = <<>> THEN <<>>
    ELSE InsertSorted(candidates[Len(candidates)],
                      SortCandidates(SubSeq(candidates, 1, Len(candidates) - 1)))

\* mutant: only the ram dimension is compared
AcquiredEnough_ram_only(acquired, required_deployment) ==
    acquired.ram >= required_deployment.resources.ram

\* acquired >= required in every dimension (lines 140-142)
AcquiredEnough(acquired, required_deployment) ==
    /\ acquired.ram >= required_deployment.resources.ram
    /\ acquired.cpu >= required_deployment.resources.cpu
    /\ acquired.gpu >= required_deployment.resources.gpu

\* the selection loop of lines 129-148: returns <<to_preempt, acquired>>
RECURSIVE SelectLoop(_, _, _, _)
SelectLoop(sorted_candidates, to_preempt, acquired, required_deployment) ==
    IF sorted_candidates = <<>> THEN <<to_preempt, acquired>>
    ELSE IF AcquiredEnough(acquired, required_deployment)
         THEN <<to_preempt, acquired>>
    ELSE LET deployment == Head(sorted_candidates)
         IN  SelectLoop(Tail(sorted_candidates),
                        Append(to_preempt, deployment),
                        ResourceSpec(acquired.ram + deployment.resources.ram,
                                     acquired.cpu + deployment.resources.cpu,
                                     acquired.gpu + deployment.resources.gpu),
                        required_deployment)

find_preemptible_deployments(running_deployments, required_deployment) ==
    LET candidates == PreemptionCandidates(running_deployments, required_deployment)
    IN  IF candidates = <<>> THEN <<>>
        ELSE LET res == SelectLoop(SortCandidates(candidates), <<>>,
                                   ResourceSpec(0, 0, 0), required_deployment)
             IN  IF AcquiredEnough(res[2], required_deployment)
                 THEN res[1] ELSE <<>>

(***************************************************************************)
(* SchedulerCore.can_schedule_deployment: <<can_schedule, to_preempt>>.    *)
(***************************************************************************)
AvailableResources(cluster) ==
    LET used == calculate_used_resources(cluster.running_deployments)
    IN  ResourceSpec(cluster.resources.ram - used.ram,
                     cluster.resources.cpu - used.cpu,
                     cluster.resources.gpu - used.gpu)

\* mutant: preemption is tried before the direct fit
can_schedule_deployment_preempt_first(deployment, cluster) ==
    LET to_preempt == find_preemptible_deployments(
                          cluster.running_deployments, deployment)
    IN  IF Len(to_preempt) > 0 THEN <<TRUE, to_preempt>>
        ELSE <<can_fit_deployment(deployment, AvailableResources(cluster)), <<>>>>

can_schedule_deployment(deployment, cluster) ==
    IF can_fit_deployment(deployment, AvailableResources(cluster))
    THEN <<TRUE, <<>>>>
    ELSE LET to_preempt == find_preemptible_deployments(
                               cluster.running_deployments, deployment)
         IN  <<Len(to_preempt) > 0, to_preempt>>

(***************************************************************************)
(* Inputs of the placement engine.                                         *)
(***************************************************************************)
\* needs accepted by create_deployment: ram > 0, cpu > 0, gpu >= 0
EnumNeeds == [ram : 1..MaxRam, cpu : {1}, gpu : {0, 1}]
EnumPriorities == {LOWEST, MEDIUM, HIGHEST}
EnumCapacities == [ram : 1..(MaxRam + 1), cpu : {1, 2}, gpu : {0, 1}]

\* a running list as the store returns it: rows with distinct ids
EnumRows == [resources : EnumNeeds, priority : EnumPriorities]

WithIds(rows) ==
    [i \in 1..Len(rows) |->
        [id |-> i, resources |-> rows[i].resources, priority |-> rows[i].priority]]

EnumRunningLists ==
    UNION {{WithIds(rows) : rows \in [1..k -> EnumRows]} : k \in 0..MaxRunning}

\* the literal scenarios of tests/test_scheduler.py (S1..S5 of the spec)
ScenarioS1 ==
    [cluster |-> ClusterInfo(10, 5, 2, <<DeploymentInfo(1, 2, 1, 0, 1)>>),
     candidate |-> DeploymentInfo(2, 4, 2, 1, 3)]

ScenarioS2 ==
    [cluster |-> ClusterInfo(10, 5, 2, <<DeploymentInfo(1, 6, 3, 1, 1),
                                         DeploymentInfo(2, 2, 1, 0, 2)>>),
     candidate |-> DeploymentInfo(3, 7, 4, 1, 5)]

ScenarioS3 ==
    [cluster |-> ClusterInfo(8, 4, 1, <<DeploymentInfo(1, 4, 2, 0, 1)>>),
     candidate |-> DeploymentInfo(2, 10, 5, 2, 5)]

ScenarioS4 ==
    [cluster |-> ClusterInfo(20, 10, 4, <<DeploymentInfo(1, 4, 2, 0, 1),
                                          DeploymentInfo(2, 8, 4, 1, 1),
                                          DeploymentInfo(3, 4, 2, 1, 2)>>),
     candidate |-> DeploymentInfo(4, 7, 3, 1, 3)]

ScenarioS5 ==
    [cluster |-> ClusterInfo(20, 10, 4, <<DeploymentInfo(1, 4, 2, 0, 1),
                                          DeploymentInfo(2, 4, 2, 0, 4),
                                          DeploymentInfo(3, 4, 2, 0, 2)>>),
     candidate |-> DeploymentInfo(4, 8, 4, 0, 3)]

Scenarios == {ScenarioS1, ScenarioS2, ScenarioS3, ScenarioS4, ScenarioS5}

(***************************************************************************)
(* The installation the workers run on: two clusters and the deployments   *)
(* that clients may create on them (Cluster and Deployment rows; the       *)
(* attributes other than status never change after creation). Each         *)
(* specification below creates the deployments of its own scope.           *)
(***************************************************************************)
Clusters == {1, 2}

ClusterCapacity ==
    [c \in Clusters |-> IF c = 1 THEN ResourceSpec(2, 2, 0)
                                  ELSE ResourceSpec(6, 6, 0)]

Catalogue ==
    <<[cluster_id |-> 1, resources |-> ResourceSpec(1, 1, 0), priority |-> LOWEST],
      [cluster_id |-> 1, resources |-> ResourceSpec(1, 1, 0), priority |-> MEDIUM],
      [cluster_id |-> 1, resources |-> ResourceSpec(2, 2, 0), priority |-> HIGHEST],
      [cluster_id |-> 1, resources |-> ResourceSpec(1, 1, 0), priority |-> HIGHEST],
      [cluster_id |-> 2, resources |-> ResourceSpec(3, 3, 0), priority |-> LOWEST],
      [cluster_id |-> 2, resources |-> ResourceSpec(1, 1, 0), priority |-> MEDIUM],
      [cluster_id |-> 2, resources |-> ResourceSpec(1, 1, 0), priority |-> LOWEST],
      [cluster_id |-> 2, resources |-> ResourceSpec(4, 4, 0), priority |-> HIGHEST],
      [cluster_id |-> 2, resources |-> ResourceSpec(4, 4, 0), priority |-> HIGHEST]>>

Deployments == DOMAIN Catalogue

Workers == {"w1", "w2"}

\* the id carried by a worker that has no job
NoJob == 0

\* the holder of a key that does not exist
Nobody == "nobody"

VARIABLES
    cluster_info,   \* the snapshot handed to the placement engine
    candidate,      \* the deployment to place
    decision,       \* the engine's return value <<can_schedule, to_preempt>>
    core_pc,        \* "input" before the call, "decided" after it, "again"
                    \* after a second call with the same arguments
    dep_status,     \* store: committed Deployment.status ("none": no row yet)
    cluster_status, \* store: committed Cluster.status
    creating,       \* create_deployment calls between their commit and enqueue
    queue,          \* the 'deployments' queue: deployment ids, oldest first
    lock,           \* Redis: whether the key lock:cluster:<id> exists
    ttl_lapsed,     \* history: the key expired under a worker still inside
    lock_by,        \* history: the worker whose SET put the key there
    w_pc,           \* position of each worker in process_deployment
    w_dep,          \* the deployment id of the worker's job
    w_status,       \* deployment.status as the worker's session loaded it
    w_owner,        \* RedisLock._owner of the worker's lock object
    w_scheduled,    \* the value try_schedule_deployment returns
    w_preempt,      \* ids the worker's session has set to pending, uncommitted
    api_pc,         \* position of each create_deployment call
    api_req,        \* the call's arguments
    api_out,        \* what the call returned or raised ("none": still running)
    api_id,         \* the id of the row the call inserted
    rows            \* the deployment table as the API sees it, in id order

core_vars == <<cluster_info, candidate, decision, core_pc>>

api_vars == <<api_pc, api_req, api_out, api_id, rows>>

store_vars == <<dep_status, cluster_status>>

worker_vars == <<w_pc, w_dep, w_status, w_owner, w_scheduled, w_preempt>>

sys_vars == <<dep_status, cluster_status, creating, queue, lock, ttl_lapsed,
              lock_by, w_pc, w_dep, w_status, w_owner, w_scheduled, w_preempt>>

vars == <<cluster_info, candidate, decision, core_pc,
          dep_status, cluster_status, creating, queue, lock, ttl_lapsed,
          lock_by, w_pc, w_dep, w_status, w_owner, w_scheduled, w_preempt,
          api_pc, api_req, api_out, api_id, rows>>

\* the state after construction: empty store, empty queue, idle workers
InitSys ==
    /\ dep_status = [d \in Deployments |-> "none"]
    /\ cluster_status = [c \in Clusters |-> "active"]
    /\ creating = {}
    /\ queue = <<>>
    /\ lock = [c \in Clusters |-> FALSE]
    /\ ttl_lapsed = [c \in Clusters |-> FALSE]
    /\ lock_by = [c \in Clusters |-> Nobody]
    /\ w_pc = [w \in Workers |-> "idle"]
    /\ w_dep = [w \in Workers |-> NoJob]
    /\ w_status = [w \in Workers |-> "none"]
    /\ w_owner = [w \in Workers |-> FALSE]
    /\ w_scheduled = [w \in Workers |-> FALSE]
    /\ w_preempt = [w \in Workers |-> <<>>]

\* the clients that call create_deployment
Callers == {"a1", "a2"}

\* no create_deployment call detailed: the workers' specification takes the
\* calls as CreateDeployment and CreateEnqueue
IdleApi ==
    /\ api_pc = [k \in Callers |-> "done"]
    /\ api_req = [k \in Callers |-> <<>>]
    /\ api_out = [k \in Callers |-> "none"]
    /\ api_id = [k \in Callers |-> NoJob]
    /\ rows = <<>>

\* the placement engine idle, as the workers' specification leaves it
IdleCore ==
    /\ cluster_info = ClusterInfo(0, 0, 0, <<>>)
    /\ candidate = DeploymentInfo(0, 0, 0, 0, 0)
    /\ decision = <<FALSE, <<>>>>
    /\ core_pc = "unused"

InitCore ==
    /\ InitSys
    /\ \/ /\ cluster_info \in [resources : EnumCapacities,
                               running_deployments : EnumRunningLists]
          /\ candidate \in {DeploymentInfo(MaxRunning + 1, n.ram, n.cpu, n.gpu, p) :
                                n \in EnumNeeds, p \in EnumPriorities}
       \/ \E s \in Scenarios :
             /\ cluster_info = s.cluster
             /\ candidate = s.candidate
    /\ decision = <<FALSE, <<>>>>
    /\ core_pc = "input"
    /\ IdleApi

\* mutant: the running list of the snapshot is sorted in place (list.sort)
SnapshotAfterCall_sorted_in_place(deployment, cluster) ==
    [cluster EXCEPT !.running_deployments = SortCandidates(@)]

\* the caller's snapshot object after a call of can_schedule_deployment: the
\* engine filters and sorts into new lists (lines 83-86, 117-123) and sums
\* into a fresh ResourceSpec (line 130), the argument is left as it was
SnapshotAfterCall(deployment, cluster) == cluster

\* one call of SchedulerCore.can_schedule_deployment; the caller may call a
\* second time with the same arguments (SchedulerCore keeps no attribute but
\* its ResourceManager, lines 64-66)
Decide ==
    /\ core_pc \in {"input", "decided"}
    /\ decision' = can_schedule_deployment(candidate, cluster_info)
    /\ cluster_info' = SnapshotAfterCall(candidate, cluster_info)
    /\ core_pc' = IF core_pc = "input" THEN "decided" ELSE "again"
    /\ UNCHANGED candidate
    /\ UNCHANGED sys_vars
    /\ UNCHANGED api_vars

NextCore == Decide

SpecCore == InitCore /\ [][NextCore]_vars

(***************************************************************************)
(* The store as a worker's queries see it (committed rows only).           *)
(***************************************************************************)
RECURSIVE IdsUpTo(_)
IdsUpTo(n) == IF n = 0 THEN <<>> ELSE Append(IdsUpTo(n - 1), n)

\* SchedulerService._get_deployment_info
get_deployment_info(d) ==
    [id |-> d, resources |-> Catalogue[d].resources,
     priority |-> Catalogue[d].priority]

\* mutant: the snapshot query reads the other sessions' uncommitted writes
get_cluster_info_dirty(c) ==
    LET open == {w \in DOMAIN w_pc : /\ w_pc[w] \in {"release", "commit"}
                                     /\ w_scheduled[w]
                                     /\ w_status[w] # "running"}
        made_running == {w_dep[w] : w \in open}
        made_pending == UNION {{w_preempt[w][k] : k \in 1..Len(w_preempt[w])} : w \in open}
        ids == SelectSeq(IdsUpTo(Len(Catalogue)),
                         LAMBDA d : /\ Catalogue[d].cluster_id = c
                                    /\ \/ d \in made_running
                                       \/ /\ dep_status[d] = "running"
                                          /\ d \notin made_pending)
    IN  [resources |-> ClusterCapacity[c],
         running_deployments |-> [k \in 1..Len(ids) |-> get_deployment_info(ids[k])]]

\* mutant: the running rows of every cluster are read
get_cluster_info_all_clusters(c) ==
    LET ids == SelectSeq(IdsUpTo(Len(Catalogue)),
                         LAMBDA d : dep_status[d] = "running")
    IN  [resources |-> ClusterCapacity[c],
         running_deployments |-> [k \in 1..Len(ids) |-> get_deployment_info(ids[k])]]

\* SchedulerService._get_cluster_info: the cluster's capacity and the rows
\* with status running, in id order
get_cluster_info(c) ==
    LET ids == SelectSeq(IdsUpTo(Len(Catalogue)),
                         LAMBDA d : /\ Catalogue[d].cluster_id = c
                                    /\ dep_status[d] = "running")
    IN  [resources |-> ClusterCapacity[c],
         running_deployments |-> [k \in 1..Len(ids) |-> get_deployment_info(ids[k])]]

IdsOf(deployments) == [k \in 1..Len(deployments) |-> deployments[k].id]

SeqToSet(s) == {s[k] : k \in 1..Len(s)}

(***************************************************************************)
(* DeploymentService.create_deployment (a new name on an active cluster):  *)
(* the row is committed as pending, then the job is enqueued.              *)
(***************************************************************************)
CreateDeployment(d) ==
    /\ dep_status[d] = "none"
    /\ cluster_status[Catalogue[d].cluster_id] = "active"
    /\ dep_status' = [dep_status EXCEPT ![d] = "pending"]
    /\ creating' = creating \cup {d}
    /\ UNCHANGED <<cluster_status, queue, lock>>
    /\ UNCHANGED worker_vars
    /\ UNCHANGED <<core_vars, api_vars, ttl_lapsed, lock_by>>

CreateEnqueue(d) ==
    /\ d \in creating
    /\ Len(queue) < MaxQueue
    /\ queue' = Append(queue, d)
    /\ creating' = creating \ {d}
    /\ UNCHANGED <<dep_status, cluster_status, lock>>
    /\ UNCHANGED worker_vars
    /\ UNCHANGED <<core_vars, api_vars, ttl_lapsed, lock_by>>

(***************************************************************************)
(* ClusterService.delete_cluster: soft delete.                             *)
(***************************************************************************)
DeleteCluster(c) ==
    /\ cluster_status[c] = "active"
    /\ cluster_status' = [cluster_status EXCEPT ![c] = "deleted"]
    /\ UNCHANGED <<dep_status, creating, queue, lock>>
    /\ UNCHANGED worker_vars
    /\ UNCHANGED <<core_vars, api_vars, ttl_lapsed, lock_by>>

\* the deployments an administrator acts on
AdminTargets == {d \in DOMAIN Catalogue :
                    /\ Catalogue[d].cluster_id = 1
                    /\ Catalogue[d].resources = ResourceSpec(1, 1, 0)
                    /\ Catalogue[d].priority = HIGHEST}

\* DeploymentService.update_deployment_status: an administrator marks a
\* deployment's row Evicted or Deleted (DeploymentStatus.EVICTED,
\* DeploymentStatus.DELETED); the scheduler itself never writes these
\* statuses, they are terminal
AdminSetStatus(d, s) ==
    /\ dep_status[d] \in {"pending", "running"}
    /\ d \notin creating
    /\ dep_status' = [dep_status EXCEPT ![d] = s]
    /\ UNCHANGED <<cluster_status, creating, queue, lock>>
    /\ UNCHANGED worker_vars
    /\ UNCHANGED <<core_vars, api_vars, ttl_lapsed, lock_by>>

(***************************************************************************)
(* worker.process_deployment, one action per step that other processes can *)
(* observe or interleave with.                                             *)
(***************************************************************************)
\* the worker takes the oldest job and loads its deployment (lines 17-50)
LoadDeployment(w) ==
    /\ w_pc[w] = "idle"
    /\ queue # <<>>
    /\ queue' = Tail(queue)
    /\ w_dep' = [w_dep EXCEPT ![w] = Head(queue)]
    /\ w_status' = [w_status EXCEPT ![w] = dep_status[Head(queue)]]
    /\ w_pc' = [w_pc EXCEPT ![w] = "loaded"]
    /\ UNCHANGED <<dep_status, cluster_status, creating, lock>>
    /\ UNCHANGED <<w_owner, w_scheduled, w_preempt>>
    /\ UNCHANGED <<core_vars, api_vars, ttl_lapsed, lock_by>>

\* mutant: the early return for a Running deployment is dropped
CheckDeployment_no_running_return(w) ==
    /\ w_pc[w] = "loaded"
    /\ IF cluster_status[Catalogue[w_dep[w]].cluster_id] # "active"
       THEN /\ w_scheduled' = [w_scheduled EXCEPT ![w] = FALSE]
            /\ w_pc' = [w_pc EXCEPT ![w] = "requeue"]
       ELSE /\ w_pc' = [w_pc EXCEPT ![w] = "acquire"]
            /\ UNCHANGED w_scheduled
    /\ UNCHANGED <<dep_status, cluster_status, creating, queue, lock>>
    /\ UNCHANGED <<w_dep, w_status, w_owner, w_preempt>>
    /\ UNCHANGED <<core_vars, api_vars, ttl_lapsed, lock_by>>

\* try_schedule_deployment up to the lock (scheduler_service.py 250-261)
CheckDeployment(w) ==
    /\ w_pc[w] = "loaded"
    /\ IF w_status[w] = "running"
       THEN /\ w_scheduled' = [w_scheduled EXCEPT ![w] = TRUE]
            /\ w_pc' = [w_pc EXCEPT ![w] = "commit"]
       ELSE IF cluster_status[Catalogue[w_dep[w]].cluster_id] # "active"
       THEN /\ w_scheduled' = [w_scheduled EXCEPT ![w] = FALSE]
            /\ w_pc' = [w_pc EXCEPT ![w] = "requeue"]
       ELSE /\ w_pc' = [w_pc EXCEPT ![w] = "acquire"]
            /\ UNCHANGED w_scheduled
    /\ UNCHANGED <<dep_status, cluster_status, creating, queue, lock>>
    /\ UNCHANGED <<w_dep, w_status, w_owner, w_preempt>>
    /\ UNCHANGED <<core_vars, api_vars, ttl_lapsed, lock_by>>

\* the cluster whose lock the worker's job needs
ClusterOf(w) == Catalogue[w_dep[w]].cluster_id

\* the workers inside the with block of try_schedule_deployment for cluster c
InsideSection(c) ==
    {w \in Workers : /\ w_pc[w] \in {"locked", "release", "release_error"}
                     /\ ClusterOf(w) = c}

\* the key's expiry (ex=expire_seconds): Redis drops the key, the RedisLock
\* object that set it is not told
LockExpire(c) ==
    /\ lock[c]
    /\ lock' = [lock EXCEPT ![c] = FALSE]
    /\ ttl_lapsed' = [ttl_lapsed EXCEPT ![c] = (InsideSection(c) # {})]
    /\ lock_by' = [lock_by EXCEPT ![c] = Nobody]
    /\ UNCHANGED <<dep_status, cluster_status, creating, queue>>
    /\ UNCHANGED worker_vars
    /\ UNCHANGED <<core_vars, api_vars>>

\* mutant: the key is set without NX, whether or not it exists
AcquireLock_no_nx(w) ==
    /\ w_pc[w] = "acquire"
    /\ lock' = [lock EXCEPT ![Catalogue[w_dep[w]].cluster_id] = TRUE]
    /\ lock_by' = [lock_by EXCEPT ![Catalogue[w_dep[w]].cluster_id] = w]
    /\ w_owner' = [w_owner EXCEPT ![w] = TRUE]
    /\ w_pc' = [w_pc EXCEPT ![w] = "locked"]
    /\ UNCHANGED <<dep_status, cluster_status, creating, queue>>
    /\ UNCHANGED <<w_dep, w_status, w_scheduled, w_preempt>>
    /\ UNCHANGED <<core_vars, api_vars, ttl_lapsed>>

\* RedisLock.acquire: SET key NX EX succeeds when the key is absent
AcquireLock(w) ==
    /\ w_pc[w] = "acquire"
    /\ ~lock[Catalogue[w_dep[w]].cluster_id]
    /\ lock' = [lock EXCEPT ![Catalogue[w_dep[w]].cluster_id] = TRUE]
    /\ lock_by' = [lock_by EXCEPT ![Catalogue[w_dep[w]].cluster_id] = w]
    /\ w_owner' = [w_owner EXCEPT ![w] = TRUE]
    /\ w_pc' = [w_pc EXCEPT ![w] = "locked"]
    /\ UNCHANGED <<dep_status, cluster_status, creating, queue>>
    /\ UNCHANGED <<w_dep, w_status, w_scheduled, w_preempt>>
    /\ UNCHANGED <<core_vars, api_vars, ttl_lapsed>>

\* RedisLock.__enter__: the key stayed set for the whole wait; TimeoutError
\* leaves process_deployment through its outer handler and the job fails
AcquireTimeout(w) ==
    /\ w_pc[w] = "acquire"
    /\ lock[Catalogue[w_dep[w]].cluster_id]
    /\ w_pc' = [w_pc EXCEPT ![w] = "idle"]
    /\ w_dep' = [w_dep EXCEPT ![w] = NoJob]
    /\ w_status' = [w_status EXCEPT ![w] = "none"]
    /\ UNCHANGED <<dep_status, cluster_status, creating, queue, lock>>
    /\ UNCHANGED <<w_owner, w_scheduled, w_preempt>>
    /\ UNCHANGED <<core_vars, api_vars, ttl_lapsed, lock_by>>

\* the body of the with block (scheduler_service.py 265-284): snapshot,
\* decision, and on admission the session's status changes and the jobs of
\* the preempted deployments (_preempt_deployments enqueues at once)
ScheduleUnderLock(w) ==
    /\ w_pc[w] = "locked"
    /\ LET d == w_dep[w]
           res == can_schedule_deployment(
                      get_deployment_info(d),
                      get_cluster_info(Catalogue[d].cluster_id))
       IN  IF ~res[1]
           THEN /\ w_scheduled' = [w_scheduled EXCEPT ![w] = FALSE]
                /\ UNCHANGED <<w_preempt, queue>>
           ELSE /\ Len(queue) + Len(res[2]) <= MaxQueue
                /\ w_preempt' = [w_preempt EXCEPT ![w] = IdsOf(res[2])]
                /\ queue' = queue \o IdsOf(res[2])
                /\ w_scheduled' = [w_scheduled EXCEPT ![w] = TRUE]
    /\ w_pc' = [w_pc EXCEPT ![w] = "release"]
    /\ UNCHANGED <<dep_status, cluster_status, creating, lock>>
    /\ UNCHANGED <<w_dep, w_status, w_owner>>
    /\ UNCHANGED <<core_vars, api_vars, ttl_lapsed, lock_by>>

\* a query of the with block raises SQLAlchemyError (scheduler_service.py
\* 267, 286-287): the block is left by the exception
ScheduleError(w) ==
    /\ w_pc[w] = "locked"
    /\ w_pc' = [w_pc EXCEPT ![w] = "release_error"]
    /\ UNCHANGED <<dep_status, cluster_status, creating, queue, lock>>
    /\ UNCHANGED <<w_dep, w_status, w_owner, w_scheduled, w_preempt>>
    /\ UNCHANGED <<core_vars, api_vars, ttl_lapsed, lock_by>>

\* mutant: release forgets the ownership but leaves the key to its expiry
ReleaseLock_keep_key(w) ==
    /\ w_pc[w] \in {"release", "release_error"}
    /\ w_owner' = [w_owner EXCEPT ![w] = FALSE]
    /\ w_pc' = [w_pc EXCEPT ![w] =
                  IF w_pc[w] = "release_error" THEN "rollback"
                  ELSE IF w_scheduled[w] THEN "commit" ELSE "requeue"]
    /\ UNCHANGED <<dep_status, cluster_status, creating, queue, lock, ttl_lapsed, lock_by>>
    /\ UNCHANGED <<w_dep, w_status, w_scheduled, w_preempt>>
    /\ UNCHANGED <<core_vars, api_vars>>

\* RedisLock.__exit__ -> release: delete the key if this object owns it;
\* runs on the return and on the exception path of the with block
ReleaseLock(w) ==
    /\ w_pc[w] \in {"release", "release_error"}
    /\ IF w_owner[w]
       THEN /\ lock' = [lock EXCEPT ![ClusterOf(w)] = FALSE]
            /\ lock_by' = [lock_by EXCEPT ![ClusterOf(w)] = Nobody]
            /\ w_owner' = [w_owner EXCEPT ![w] = FALSE]
       ELSE UNCHANGED <<lock, lock_by, w_owner>>
    /\ ttl_lapsed' = [ttl_lapsed EXCEPT ![ClusterOf(w)] =
                         @ /\ (InsideSection(ClusterOf(w)) \ {w}) # {}]
    /\ w_pc' = [w_pc EXCEPT ![w] =
                  IF w_pc[w] = "release_error" THEN "rollback"
                  ELSE IF w_scheduled[w] THEN "commit" ELSE "requeue"]
    /\ UNCHANGED <<dep_status, cluster_status, creating, queue>>
    /\ UNCHANGED <<w_dep, w_status, w_scheduled, w_preempt>>
    /\ UNCHANGED <<core_vars, api_vars>>

\* worker.py 75-82: SQLAlchemyError, the session is rolled back and the
\* exception raised again, the job fails
RollbackFail(w) ==
    /\ w_pc[w] = "rollback"
    /\ w_pc' = [w_pc EXCEPT ![w] = "idle"]
    /\ w_dep' = [w_dep EXCEPT ![w] = NoJob]
    /\ w_status' = [w_status EXCEPT ![w] = "none"]
    /\ w_scheduled' = [w_scheduled EXCEPT ![w] = FALSE]
    /\ w_preempt' = [w_preempt EXCEPT ![w] = <<>>]
    /\ UNCHANGED <<dep_status, cluster_status, creating, queue, lock, w_owner>>
    /\ UNCHANGED <<core_vars, api_vars, ttl_lapsed, lock_by>>

\* mutant: the commit publishes the candidate's status alone
Commit_candidate_only(w) ==
    /\ w_pc[w] = "commit"
    /\ dep_status' =
          [d \in Deployments |->
              IF d = w_dep[w] /\ w_status[w] # "running" THEN "running"
              ELSE dep_status[d]]
    /\ w_pc' = [w_pc EXCEPT ![w] = "idle"]
    /\ w_dep' = [w_dep EXCEPT ![w] = NoJob]
    /\ w_status' = [w_status EXCEPT ![w] = "none"]
    /\ w_scheduled' = [w_scheduled EXCEPT ![w] = FALSE]
    /\ w_preempt' = [w_preempt EXCEPT ![w] = <<>>]
    /\ UNCHANGED <<cluster_status, creating, queue, lock, w_owner>>
    /\ UNCHANGED <<core_vars, api_vars, ttl_lapsed, lock_by>>

\* worker.py 72-73: db.session.commit() writes the session's status changes
Commit(w) ==
    /\ w_pc[w] = "commit"
    /\ dep_status' =
          [d \in Deployments |->
              IF d = w_dep[w] /\ w_status[w] # "running" THEN "running"
              ELSE IF d \in SeqToSet(w_preempt[w]) THEN "pending"
              ELSE dep_status[d]]
    /\ w_pc' = [w_pc EXCEPT ![w] = "idle"]
    /\ w_dep' = [w_dep EXCEPT ![w] = NoJob]
    /\ w_status' = [w_status EXCEPT ![w] = "none"]
    /\ w_scheduled' = [w_scheduled EXCEPT ![w] = FALSE]
    /\ w_preempt' = [w_preempt EXCEPT ![w] = <<>>]
    /\ UNCHANGED <<cluster_status, creating, queue, lock, w_owner>>
    /\ UNCHANGED <<core_vars, api_vars, ttl_lapsed, lock_by>>

\* mutant: a deployment that was not scheduled is dropped without a new job
Requeue_drop(w) ==
    /\ w_pc[w] = "requeue"
    /\ w_pc' = [w_pc EXCEPT ![w] = "idle"]
    /\ w_dep' = [w_dep EXCEPT ![w] = NoJob]
    /\ w_status' = [w_status EXCEPT ![w] = "none"]
    /\ w_scheduled' = [w_scheduled EXCEPT ![w] = FALSE]
    /\ w_preempt' = [w_preempt EXCEPT ![w] = <<>>]
    /\ UNCHANGED <<dep_status, cluster_status, creating, queue, lock, w_owner>>
    /\ UNCHANGED <<core_vars, api_vars, ttl_lapsed, lock_by>>

\* worker.py 73-78: the commit flushes the session's status changes and the
\* store raises SQLAlchemyError; nothing is written
CommitError(w) ==
    /\ w_pc[w] = "commit"
    /\ w_status[w] # "running"
    /\ w_pc' = [w_pc EXCEPT ![w] = "rollback"]
    /\ UNCHANGED <<dep_status, cluster_status, creating, queue, lock>>
    /\ UNCHANGED <<w_dep, w_status, w_owner, w_scheduled, w_preempt>>
    /\ UNCHANGED <<core_vars, api_vars, ttl_lapsed, lock_by>>

\* worker.py 55-70: not scheduled, the job is enqueued again and the
\* session rolled back
Requeue(w) ==
    /\ w_pc[w] = "requeue"
    /\ Len(queue) < MaxQueue
    /\ queue' = Append(queue, w_dep[w])
    /\ w_pc' = [w_pc EXCEPT ![w] = "idle"]
    /\ w_dep' = [w_dep EXCEPT ![w] = NoJob]
    /\ w_status' = [w_status EXCEPT ![w] = "none"]
    /\ w_scheduled' = [w_scheduled EXCEPT ![w] = FALSE]
    /\ w_preempt' = [w_preempt EXCEPT ![w] = <<>>]
    /\ UNCHANGED <<dep_status, cluster_status, creating, lock, w_owner>>
    /\ UNCHANGED <<core_vars, api_vars, ttl_lapsed, lock_by>>

Init == InitSys /\ IdleCore /\ IdleApi

\* the scope of the workers' specification: the first cluster and its
\* deployments
DeploymentsOn(c) == {d \in Deployments : Catalogue[d].cluster_id = c}
FirstCluster == {c \in Clusters : \A c2 \in Clusters : c <= c2}
FirstDeployments == UNION {DeploymentsOn(c) : c \in FirstCluster}

Next ==
    \/ \E d \in FirstDeployments : CreateDeployment(d)
    \/ \E d \in FirstDeployments : CreateEnqueue(d)
    \/ \E c \in FirstCluster : DeleteCluster(c)
    \/ \E d \in AdminTargets : \E s \in {"evicted", "deleted"} : AdminSetStatus(d, s)
    \/ \E w \in Workers : LoadDeployment(w)
    \/ \E w \in Workers : CheckDeployment(w)
    \/ \E w \in Workers : AcquireLock(w)
    \/ \E w \in Workers : AcquireTimeout(w)
    \/ \E c \in FirstCluster : LockExpire(c)
    \/ \E w \in Workers : ScheduleUnderLock(w)
    \/ \E w \in Workers : ScheduleError(w)
    \/ \E w \in Workers : ReleaseLock(w)
    \/ \E w \in Workers : CommitError(w)
    \/ \E w \in Workers : RollbackFail(w)
    \/ \E w \in Workers : Commit(w)
    \/ \E w \in Workers : Requeue(w)

Spec == Init /\ [][Next]_vars

(***************************************************************************)
(* The workers on the second, larger cluster: creations, attempts and      *)
(* failing commits, the lock held until it is released.                    *)
(***************************************************************************)
SecondCluster == Clusters \ FirstCluster
SecondDeployments == UNION {DeploymentsOn(c) : c \in SecondCluster}

NextSecond ==
    \/ \E d \in SecondDeployments : CreateDeployment(d)
    \/ \E d \in SecondDeployments : CreateEnqueue(d)
    \/ \E w \in Workers : LoadDeployment(w)
    \/ \E w \in Workers : CheckDeployment(w)
    \/ \E w \in Workers : AcquireLock(w)
    \/ \E w \in Workers : ScheduleUnderLock(w)
    \/ \E w \in Workers : ReleaseLock(w)
    \/ \E w \in Workers : CommitError(w)
    \/ \E w \in Workers : RollbackFail(w)
    \/ \E w \in Workers : Commit(w)
    \/ \E w \in Workers : Requeue(w)

SpecSecond == Init /\ [][NextSecond]_vars

(***************************************************************************)
(* The workers under weak fairness, for a fixed set of deployments on an   *)
(* active cluster and a store that does not fail: an rq worker that has a  *)
(* job or finds one on the queue takes its next step (Worker.work loops),  *)
(* and a create_deployment call that committed its row goes on to enqueue  *)
(* it. A worker polling a held lock gives up after its 10 s wait.          *)
(***************************************************************************)
\* the steps of process_deployment outside the body of the with block
OutsideBody(w) ==
    \/ LoadDeployment(w)
    \/ CheckDeployment(w)
    \/ AcquireLock(w)
    \/ AcquireTimeout(w)
    \/ ReleaseLock(w)
    \/ Commit(w)
    \/ Requeue(w)

WorkerStep(w) == OutsideBody(w) \/ ScheduleUnderLock(w)

EnqueueStep == \E d \in FirstDeployments : CreateEnqueue(d)

NextFair ==
    \/ \E d \in FirstDeployments : CreateDeployment(d)
    \/ EnqueueStep
    \/ \E w \in Workers : WorkerStep(w)

\* a worker that can take a step outside the body takes one; the body of the
\* with block is straight-line code over the store and always comes to its
\* end; a call that committed its row enqueues it
Fairness ==
    /\ \A w \in Workers : WF_vars(OutsideBody(w))
    /\ \A w \in Workers : []<>(w_pc[w] # "locked")
    /\ WF_vars(EnqueueStep)

SpecFair == Init /\ [][NextFair]_vars /\ Fairness

(***************************************************************************)
(* The workers with jobs of both clusters: the one-unit deployments of     *)
(* either cluster, attempts, lock expiry and timeouts, failing commits.    *)
(***************************************************************************)
UnitDeployments ==
    {d \in Deployments : Catalogue[d].resources = ResourceSpec(1, 1, 0)}

NextBoth ==
    \/ \E d \in UnitDeployments : CreateDeployment(d)
    \/ \E d \in UnitDeployments : CreateEnqueue(d)
    \/ \E w \in Workers : LoadDeployment(w)
    \/ \E w \in Workers : CheckDeployment(w)
    \/ \E w \in Workers : AcquireLock(w)
    \/ \E w \in Workers : AcquireTimeout(w)
    \/ \E c \in Clusters : LockExpire(c)
    \/ \E w \in Workers : ScheduleUnderLock(w)
    \/ \E w \in Workers : ReleaseLock(w)
    \/ \E w \in Workers : CommitError(w)
    \/ \E w \in Workers : RollbackFail(w)
    \/ \E w \in Workers : Commit(w)
    \/ \E w \in Workers : Requeue(w)

SpecBoth == Init /\ [][NextBoth]_vars

(***************************************************************************)
(* DeploymentService.create_deployment in detail: two concurrent calls,    *)
(* one action per step between which the other call or delete_cluster can  *)
(* run.                                                                    *)
(***************************************************************************)
\* the arguments tried: valid and invalid values of every field, an existing
\* cluster (1) and a missing one (3), two names
EnumRequests ==
    [cluster_id : {1, 3}, name : {"a", "b"},
     ram : {0, 1}, cpu : {0, 1}, gpu : {-1, 0},
     priority : {LOWEST - 1, LOWEST, HIGHEST, HIGHEST + 1}]

\* DeploymentPriority.is_valid
is_valid(value) == value \in {LOWEST, LOW, MEDIUM, HIGH, HIGHEST}

\* mutant: a negative gpu count passes the validation
validate_request_gpu_unchecked(req) ==
    IF req.ram <= 0 \/ req.cpu <= 0 THEN "INVALID_RESOURCES"
    ELSE IF ~is_valid(req.priority) THEN "INVALID_PRIORITY"
    ELSE "ok"

\* create_deployment, lines 21-30: the checks of the argument values
validate_request(req) ==
    IF req.ram <= 0 \/ req.cpu <= 0 \/ req.gpu < 0 THEN "INVALID_RESOURCES"
    ELSE IF ~is_valid(req.priority) THEN "INVALID_PRIORITY"
    ELSE "ok"

\* lines 43-46: the ids of the rows of the request's cluster and name that
\* are not Deleted
ExistingRows(req) ==
    {i \in 1..Len(rows) : /\ rows[i].cluster_id = req.cluster_id
                          /\ rows[i].name = req.name
                          /\ rows[i].status # "deleted"}

\* the first of a non-empty set of row ids
FirstRow(ids) == CHOOSE i \in ids : \A j \in ids : i <= j

InitApi ==
    /\ InitSys
    /\ IdleCore
    /\ api_pc = [k \in Callers |-> "start"]
    /\ api_req \in [Callers -> EnumRequests]
    /\ api_out = [k \in Callers |-> "none"]
    /\ api_id = [k \in Callers |-> NoJob]
    /\ rows = <<>>

\* lines 20-40: argument checks, then the query for the Active cluster
ApiValidate(k) ==
    /\ api_pc[k] = "start"
    /\ LET req == api_req[k]
           err == validate_request(req)
       IN  IF err # "ok"
           THEN /\ api_out' = [api_out EXCEPT ![k] = err]
                /\ api_pc' = [api_pc EXCEPT ![k] = "done"]
           ELSE IF req.cluster_id \notin Clusters
           THEN /\ api_out' = [api_out EXCEPT ![k] = "CLUSTER_NOT_FOUND"]
                /\ api_pc' = [api_pc EXCEPT ![k] = "done"]
           ELSE IF cluster_status[req.cluster_id] # "active"
           THEN /\ api_out' = [api_out EXCEPT ![k] = "CLUSTER_NOT_FOUND"]
                /\ api_pc' = [api_pc EXCEPT ![k] = "done"]
           ELSE /\ api_pc' = [api_pc EXCEPT ![k] = "validated"]
                /\ UNCHANGED api_out
    /\ UNCHANGED <<api_req, api_id, rows>>
    /\ UNCHANGED sys_vars
    /\ UNCHANGED core_vars

\* lines 42-61: the query for a row of the same name; on a hit the existing
\* row is returned, unless it is Pending without a job: then
\* enqueue_deployment(id, delay=10) is called, which takes no delay
ApiCheckName(k) ==
    /\ api_pc[k] = "validated"
    /\ LET found == ExistingRows(api_req[k])
       IN  IF found = {}
           THEN /\ api_pc' = [api_pc EXCEPT ![k] = "checked"]
                /\ UNCHANGED api_out
           ELSE /\ api_pc' = [api_pc EXCEPT ![k] = "done"]
                /\ api_out' = [api_out EXCEPT ![k] =
                                 IF /\ rows[FirstRow(found)].status = "pending"
                                    /\ FirstRow(found) \notin SeqToSet(queue)
                                 THEN "TypeError" ELSE "existing"]
    /\ UNCHANGED <<api_req, api_id, rows>>
    /\ UNCHANGED sys_vars
    /\ UNCHANGED core_vars

\* lines 63-78: the row is added with status pending and committed
ApiCommit(k) ==
    /\ api_pc[k] = "checked"
    /\ rows' = Append(rows, [cluster_id |-> api_req[k].cluster_id,
                             name |-> api_req[k].name,
                             ram |-> api_req[k].ram,
                             cpu |-> api_req[k].cpu,
                             gpu |-> api_req[k].gpu,
                             priority |-> api_req[k].priority,
                             status |-> "pending"])
    /\ api_id' = [api_id EXCEPT ![k] = Len(rows) + 1]
    /\ api_pc' = [api_pc EXCEPT ![k] = "committed"]
    /\ UNCHANGED <<api_req, api_out>>
    /\ UNCHANGED sys_vars
    /\ UNCHANGED core_vars

\* lines 80-85: the new row's id is enqueued and the row returned
ApiEnqueue(k) ==
    /\ api_pc[k] = "committed"
    /\ queue' = Append(queue, api_id[k])
    /\ api_out' = [api_out EXCEPT ![k] = "created"]
    /\ api_pc' = [api_pc EXCEPT ![k] = "done"]
    /\ UNCHANGED <<api_req, api_id, rows>>
    /\ UNCHANGED <<dep_status, cluster_status, creating, lock, ttl_lapsed, lock_by>>
    /\ UNCHANGED worker_vars
    /\ UNCHANGED core_vars

NextApi ==
    \/ \E k \in Callers : ApiValidate(k)
    \/ \E k \in Callers : ApiCheckName(k)
    \/ \E k \in Callers : ApiCommit(k)
    \/ \E k \in Callers : ApiEnqueue(k)
    \/ \E c \in FirstCluster : DeleteCluster(c)

SpecApi == InitApi /\ [][NextApi]_vars

(***************************************************************************)
(* Vocabulary of the placement-engine properties.                          *)
(***************************************************************************)
Admitted == core_pc = "decided" /\ decision[1]
Refused == core_pc = "decided" /\ ~decision[1]
Preempt == decision[2]
PreemptIds == {Preempt[i].id : i \in 1..Len(Preempt)}
Running == cluster_info.running_deployments
Capacity == cluster_info.resources
Avail == AvailableResources(cluster_info)
DirectFit == can_fit_deployment(candidate, Avail)
LowerPriority == SelectSeq(Running, LAMBDA d : d.priority < candidate.priority)
Survivors == SelectSeq(Running, LAMBDA d : d.id \notin PreemptIds)
WithinCapacity ==
    LET used == calculate_used_resources(Running)
    IN  used.ram <= Capacity.ram /\ used.cpu <= Capacity.cpu /\ used.gpu <= Capacity.gpu

\* need fits in avail + the needs of the deployments of the list freed
FitsWithFreed(need, avail, freed) ==
    LET f == calculate_used_resources(freed)
    IN  /\ need.ram <= avail.ram + f.ram
        /\ need.cpu <= avail.cpu + f.cpu
        /\ need.gpu <= avail.gpu + f.gpu

\* the needs of the deployments of a list cover the whole of need
Covers(deployments, need) ==
    LET f == calculate_used_resources(deployments)
    IN  f.ram >= need.ram /\ f.cpu >= need.cpu /\ f.gpu >= need.gpu

\* a comes before b in the claimed order: higher score first, then lower
\* priority first
ClaimedBefore(a, b) ==
    LET sa == a.resources.ram + a.resources.cpu + a.resources.gpu
        sb == b.resources.ram + b.resources.cpu + b.resources.gpu
    IN  sa > sb \/ (sa = sb /\ a.priority < b.priority)

WithoutIndex(s, i) == SubSeq(s, 1, i - 1) \o SubSeq(s, i + 1, Len(s))

InScenario(s) == cluster_info = s.cluster /\ candidate = s.candidate

\* C2: on a snapshot whose running set is within capacity, an admission
\* (True, P) leaves need(D) plus the needs of the running deployments not in P
\* within the capacity in every dimension.
C2_DecisionNeverOvercommits ==
    (Admitted /\ WithinCapacity) =>
        FitsWithFreed(candidate.resources,
                      ResourceSpec(Capacity.ram - SumRam(Survivors),
                                   Capacity.cpu - SumCpu(Survivors),
                                   Capacity.gpu - SumGpu(Survivors)),
                      <<>>)

\* C2 witness: an admission by preemption on a snapshot within capacity that
\* leaves another deployment running.
C2_Witness ==
    /\ Admitted /\ WithinCapacity
    /\ Len(Preempt) > 0
    /\ Len(Survivors) > 0

\* C3: every deployment of the preempt list has a priority strictly below the
\* candidate's; a running deployment of the same or a higher priority is never
\* preempted.
C3_PreemptOnlyLowerPriority ==
    Admitted => \A i \in 1..Len(Preempt) : Preempt[i].priority < candidate.priority

\* C3 witness: a preemption next to a running deployment of the candidate's
\* own priority, which stays.
C3_Witness ==
    /\ Admitted
    /\ Len(Preempt) > 0
    /\ \E i \in 1..Len(Survivors) : Survivors[i].priority = candidate.priority

\* C4 (as claimed): a non-empty preempt list P is minimal: without any single
\* element of P the candidate no longer fits in avail + the needs of the rest
\* (stated for snapshots within capacity, where avail is not negative).
C4_PreemptSetMinimal ==
    (Admitted /\ WithinCapacity /\ Len(Preempt) > 0) =>
        \A i \in 1..Len(Preempt) :
            ~FitsWithFreed(candidate.resources, Avail, WithoutIndex(Preempt, i))

\* C5 (as claimed): when preemption is needed the preempt list is the shortest
\* prefix of the sorted candidates with need(D) fitting in avail + freed; in
\* scenario S2 it is exactly <<D1>> (stated for snapshots within capacity).
C5_ShortestPrefixWithAvail ==
    /\ (Admitted /\ WithinCapacity /\ ~DirectFit) =>
          LET sorted == SortCandidates(LowerPriority)
              k == Len(Preempt)
          IN  /\ k <= Len(sorted)
              /\ Preempt = SubSeq(sorted, 1, k)
              /\ FitsWithFreed(candidate.resources, Avail, Preempt)
              /\ \A j \in 0..(k - 1) :
                    ~FitsWithFreed(candidate.resources, Avail, SubSeq(sorted, 1, j))
    /\ (core_pc = "decided" /\ InScenario(ScenarioS2)) =>
          decision = <<TRUE, <<ScenarioS2.cluster.running_deployments[1]>>>>

\* C6 (as claimed): the engine refuses exactly when the candidate does not
\* fit directly and either no running deployment has a lower priority or the
\* candidate does not fit in avail + the needs of all of them; a refusal
\* carries an empty preempt list (stated for snapshots within capacity).
C6_RefusalExactlyWhenInfeasible ==
    (core_pc = "decided" /\ WithinCapacity) =>
        /\ Refused <=>
              /\ ~DirectFit
              /\ \/ LowerPriority = <<>>
                 \/ ~FitsWithFreed(candidate.resources, Avail, LowerPriority)
        /\ Refused => Preempt = <<>>

C10_FullCapacityIffEmpty ==
    (core_pc = "decided" /\ candidate.resources = Capacity) =>
        (decision[1] <=> Running = <<>>)

\* C10 (amended): a candidate whose need equals the full capacity is admitted
\* if and only if the cluster has no running deployment or the needs of the
\* running deployments of strictly lower priority together reach the full
\* capacity in every dimension (they are then preempted).
C10_FullCapacityAdmission ==
    (core_pc = "decided" /\ candidate.resources = Capacity) =>
        (decision[1] <=> (Running = <<>> \/ Covers(LowerPriority, Capacity)))

\* C10 witness: a full-capacity candidate admitted onto a cluster that is not
\* empty.
C10_Witness ==
    /\ Admitted
    /\ candidate.resources = Capacity
    /\ Running # <<>>

(***************************************************************************)
(* Properties of the workers' specification.                               *)
(***************************************************************************)
RunningOn(c) ==
    SelectSeq(IdsUpTo(Len(Catalogue)),
              LAMBDA d : Catalogue[d].cluster_id = c /\ dep_status[d] = "running")

RECURSIVE NeedSum(_, _)
NeedSum(ids, dim) ==
    IF ids = <<>> THEN 0
    ELSE Catalogue[Head(ids)].resources[dim] + NeedSum(Tail(ids), dim)

\* C1 (as claimed): in every committed store state, for every active cluster
\* the needs of its running deployments sum to at most the cluster's capacity
\* in ram, in cpu and in gpu.
C1_CapacityInvariant ==
    \A c \in Clusters :
        cluster_status[c] = "active" =>
            \A dim \in {"ram", "cpu", "gpu"} :
                NeedSum(RunningOn(c), dim) <= ClusterCapacity[c][dim]

\* a step of worker w: every step of process_deployment moves its position
Steps(w) == w_pc'[w] # w_pc[w]

\* the job worker w holds was delivered for a deployment it loaded as Running
Redelivered(w) == w_status[w] = "running"

\* C11: processing a job whose deployment is already Running reports success
\* (it goes straight to the commit, scheduled, and ends there), changes no
\* deployment's status, never takes or touches the cluster lock, and adds no
\* job to the queue.
C11_IdempotentRedelivery ==
    [][\A w \in Workers :
          (Redelivered(w) /\ Steps(w)) =>
              /\ dep_status' = dep_status
              /\ queue' = queue
              /\ lock' = lock
              /\ ~w_owner'[w]
              /\ \/ w_pc[w] = "loaded" /\ w_pc'[w] = "commit" /\ w_scheduled'[w]
                 \/ w_pc[w] = "commit" /\ w_pc'[w] = "idle"]_vars

\* C11 witness: a worker about to commit a job that found its deployment
\* Running.
C11_Witness ==
    \E w \in Workers :
        /\ w_pc[w] = "commit"
        /\ Redelivered(w)
        /\ w_scheduled[w]
        /\ w_preempt[w] = <<>>

\* the deployments that have a job: queued, or held by a worker
Queued(d) == d \in SeqToSet(queue)
Processed(d) == \E w \in Workers : w_dep[w] = d
HasJob(d) == Queued(d) \/ Processed(d)

\* every Pending deployment whose create_deployment call has returned has a
\* job
PendingHasJob ==
    \A d \in Deployments :
        (dep_status[d] = "pending" /\ d \notin creating) => HasJob(d)

\* a job fails on a store error: the one loss the drain leaves to the queue
StoreErrorStep == \E w \in Workers : w_pc[w] = "rollback" /\ Steps(w)

\* C12 (as claimed): every deployment whose committed status is Pending has a
\* job queued or being processed; checked step by step, no step other than a
\* job failing on a store error takes a Pending deployment's last job away.
C12_PendingHasJob ==
    [][(PendingHasJob /\ ~StoreErrorStep) => PendingHasJob']_vars

\* C13 (as claimed): at any instant at most one worker is inside the
\* lock-protected section of a cluster key, also when the key's TTL expires
\* while its holder is still inside.
C13_MutualExclusion ==
    \A c \in Clusters : Cardinality(InsideSection(c)) <= 1

\* C13 (amended): at most one worker is inside the lock-protected section of
\* a cluster key as long as the key has not expired under a worker that was
\* still inside the section.
C13_MutualExclusionWithinTtl ==
    \A c \in Clusters :
        ~ttl_lapsed[c] => Cardinality(InsideSection(c)) <= 1

\* C13 witness: one worker is inside the section, its key alive, while the
\* other worker polls the same key.
C13_Witness ==
    \E c \in Clusters : \E w1, w2 \in Workers :
        /\ ~ttl_lapsed[c]
        /\ lock[c]
        /\ InsideSection(c) = {w1}
        /\ w_pc[w2] = "acquire"
        /\ ClusterOf(w2) = c

\* C14: on every way out of the lock-protected section (admission, refusal,
\* exception) the worker that leaves no longer owns the lock and the cluster's
\* lock key is gone, so that no worker outside the section ever owns a lock
\* and the next acquire finds the key absent.
C14_ScopedRelease ==
    [][\A c \in Clusters : \A w \in Workers :
          /\ (w \in InsideSection(c) /\ (w \notin InsideSection(c))') =>
                 /\ ~w_owner'[w]
                 /\ ~lock'[c]
                 /\ w_pc'[w] \in {"commit", "requeue", "rollback"}
          /\ w_pc'[w] \notin {"locked", "release", "release_error"} =>
                 ~w_owner'[w]]_vars

\* C14 witness: a worker has left the section on the exception path and the
\* other worker has acquired the same key after it, no expiry involved.
C14_Witness ==
    \E c \in Clusters : \E w1, w2 \in Workers :
        /\ w_pc[w1] = "rollback"
        /\ ~w_scheduled[w1]
        /\ ClusterOf(w1) = c
        /\ ~ttl_lapsed[c]
        /\ InsideSection(c) = {w2}
        /\ lock[c]

\* worker w gives up polling the lock: the wait budget of acquire ran out
LockTimedOut(w) == w_pc[w] = "acquire" /\ Steps(w) /\ w_pc'[w] # "locked"

\* C15 (as claimed): when the cluster lock cannot be acquired within the wait
\* budget the attempt is Deferred: no deployment's status changes and the
\* candidate's job is enqueued again.
C15_LockTimeoutDeferred ==
    [][\A w \in Workers : \A d \in Deployments :
          (LockTimedOut(w) /\ w_dep[w] = d) =>
              /\ dep_status' = dep_status
              /\ queue' = Append(queue, d)]_vars

\* the with block of worker w came back with a refusal of the engine
EngineRefused(w) == w_pc[w] = "release" /\ ~w_scheduled[w]

\* C16: when the engine refuses a candidate the attempt is Deferred: the
\* refusal and the steps after it write no deployment status (the candidate,
\* loaded Pending, stays as it is and no running deployment is touched),
\* nothing is enqueued before the attempt's last step, and that step appends
\* exactly the candidate's job to the queue.
C16_RefusalDeferred ==
    [][\A w \in Workers : \A d \in Deployments :
          (w_dep[w] = d /\ Steps(w)) =>
              /\ (EngineRefused(w))' =>
                     /\ w_status[w] # "running"
                     /\ w_preempt'[w] = <<>>
                     /\ dep_status' = dep_status
                     /\ queue' = queue
              /\ EngineRefused(w) =>
                     /\ w_pc'[w] = "requeue"
                     /\ dep_status' = dep_status
                     /\ queue' = queue
              /\ w_pc[w] = "requeue" =>
                     /\ w_pc'[w] = "idle"
                     /\ dep_status' = dep_status
                     /\ queue' = Append(queue, d)]_vars

\* C16 witness: a refused candidate's worker is about to enqueue it again,
\* its cluster still active and the candidate still Pending.
C16_Witness ==
    \E w \in Workers :
        /\ w_pc[w] = "requeue"
        /\ cluster_status[ClusterOf(w)] = "active"
        /\ w_status[w] = "pending"
        /\ dep_status[w_dep[w]] = "pending"
        /\ ~Queued(w_dep[w])

\* deployment d's committed status becomes Running in this step
BecomesRunning(d) == dep_status[d] # "running" /\ dep_status'[d] = "running"

\* C17 (as claimed): under any interleaving of delete_cluster with scheduling
\* attempts, no deployment's committed status changes to Running while its
\* cluster's status is Deleted.
C17_DeletedClusterNeverAdmits ==
    [][\A d \in Deployments :
          BecomesRunning(d) =>
              cluster_status'[Catalogue[d].cluster_id] # "deleted"]_vars

\* worker w's attempt found, for a Pending deployment, no Active cluster
FoundClusterNotActive(w) ==
    /\ w_pc[w] = "loaded"
    /\ Steps(w)
    /\ w_status[w] = "pending"
    /\ cluster_status[ClusterOf(w)] # "active"

\* C18 (as claimed): a scheduling attempt for a Pending deployment whose
\* cluster is not Active sets the deployment's status to Evicted and is not
\* retried: it ends there and no job for the deployment is enqueued.
C18_NotActiveEvicts ==
    [][\A w \in Workers : \A d \in Deployments :
          (FoundClusterNotActive(w) /\ w_dep[w] = d) =>
              /\ dep_status'[d] = "evicted"
              /\ w_pc'[w] = "idle"
              /\ queue' = queue]_vars

\* the number of jobs of deployment d in the queue
JobsQueued(d) == Len(SelectSeq(queue, LAMBDA j : j = d))

\* C19 (as claimed): enqueueing a deployment whose job is already queued is a
\* no-op, so the queue holds at most one job per deployment.
C19_OneJobPerDeployment ==
    \A d \in Deployments : JobsQueued(d) <= 1

\* worker w commits the admission of a deployment it loaded as not Running
AdmissionCommit(w) == w_pc[w] = "commit" /\ w_pc'[w] = "idle" /\ ~Redelivered(w)

\* C20: admission and preemption are atomic: the step that makes an admitted
\* deployment Running makes every deployment of its preempt set Pending as
\* well, and a status written by a scheduling attempt only ever changes in
\* such a step, so no committed state lies between the two changes.
C20_AtomicAdmission ==
    [][/\ \A w \in Workers : \A d \in Deployments :
            (AdmissionCommit(w) /\ w_dep[w] = d) =>
                /\ dep_status'[d] = "running"
                /\ \A p \in SeqToSet(w_preempt[w]) \ {d} :
                       dep_status'[p] = "pending"
       /\ \A e \in Deployments :
            (/\ dep_status[e] # "none"
             /\ dep_status'[e] # dep_status[e]
             /\ dep_status'[e] \in {"pending", "running"}) =>
                \E w \in Workers :
                    /\ AdmissionCommit(w)
                    /\ e \in {w_dep[w]} \cup SeqToSet(w_preempt[w])]_vars

\* C20 witness: an admission that preempts two running deployments is about
\* to be committed, the store still showing the state before it.
C20_Witness ==
    \E w \in Workers :
        /\ w_pc[w] = "commit"
        /\ Len(w_preempt[w]) = 2
        /\ dep_status[w_dep[w]] = "pending"
        /\ \A p \in SeqToSet(w_preempt[w]) : dep_status[p] = "running"

\* worker w has decided an admission under the lock and not committed it yet
UncommittedAdmission(w) ==
    /\ w_pc[w] \in {"release", "commit"}
    /\ w_scheduled[w]
    /\ ~Redelivered(w)

\* C21 (as claimed): the transaction of an admission is committed before the
\* cluster lock is released, so no other worker is inside the cluster's
\* lock-protected section while an admission for that cluster is decided and
\* not yet committed (expiry of the key under its holder left aside).
C21_CommitBeforeRelease ==
    \A w1, w2 \in Workers :
        (/\ w1 # w2
         /\ UncommittedAdmission(w1)
         /\ ~ttl_lapsed[ClusterOf(w1)])
        => w2 \notin InsideSection(ClusterOf(w1))

\* worker w leaves the with block's body in this step
Decides(w) == w_pc[w] = "locked" /\ w_pc'[w] = "release"

\* C22 (as claimed): the job of a preempted deployment is placed on the queue
\* only after the transaction that sets it Pending has committed: whenever a
\* decision adds a job to the queue, that deployment's committed status is
\* Pending.
C22_EnqueueAfterCommit ==
    [][\A w \in Workers : \A d \in Deployments :
          (Decides(w) /\ JobsQueued(d)' > JobsQueued(d)) =>
              dep_status'[d] = "pending"]_vars

\* C23 (as claimed): admissions on a cluster are totally ordered by the
\* acquisition of its lock: when a decision is taken, every admission decided
\* earlier on the cluster is committed and so part of the snapshot (expiry of
\* the key under its holder left aside).
C23_SnapshotSeesEarlierAdmissions ==
    [][\A w1, w2 \in Workers :
          (/\ w1 # w2
           /\ Decides(w1)
           /\ ~ttl_lapsed[ClusterOf(w1)]
           /\ UncommittedAdmission(w2)
           /\ ClusterOf(w2) = ClusterOf(w1))
          => dep_status[w_dep[w2]] = "running"]_vars

\* deployment d's need fits in what the committed Running set of cluster c
\* leaves free
FitsCommitted(d, c) ==
    \A dim \in {"ram", "cpu", "gpu"} :
        Catalogue[d].resources[dim] + NeedSum(RunningOn(c), dim)
            <= ClusterCapacity[c][dim]

\* C24: a decision depends on committed statuses only, whatever another
\* call on the same cluster has written and not committed: it admits without
\* preemption exactly when the candidate fits beside the committed Running
\* set, and it preempts only deployments whose committed status is Running.
C24_DecisionOnCommittedState ==
    [][\A w \in Workers : \A d \in Deployments :
          (Decides(w) /\ w_dep[w] = d) =>
              /\ FitsCommitted(d, Catalogue[d].cluster_id)
                     <=> (w_scheduled'[w] /\ w_preempt'[w] = <<>>)
              /\ \A p \in SeqToSet(w_preempt'[w]) : dep_status[p] = "running"]_vars

\* C24 witness: a worker has taken its decision while the other worker's
\* admission on the same cluster was written and not committed.
C24_Witness ==
    \E w1, w2 \in Workers :
        /\ w_pc[w1] = "commit"
        /\ UncommittedAdmission(w1)
        /\ dep_status[w_dep[w1]] = "pending"
        /\ w_pc[w2] = "release"
        /\ ClusterOf(w2) = ClusterOf(w1)
        /\ ~ttl_lapsed[ClusterOf(w1)]

\* worker w's scheduling attempt meets a store error in this step
StoreErrorIn(w) ==
    \/ w_pc[w] = "locked" /\ w_pc'[w] = "release_error"
    \/ w_pc[w] = "commit" /\ w_pc'[w] = "rollback"

\* the job of worker w fails in this step
JobFails(w) == w_pc[w] = "rollback" /\ w_pc'[w] = "idle"

\* C28 (as claimed): on a store error during a scheduling attempt no status
\* change of the attempt is committed, the cluster lock is released before
\* the job fails, and no side effect survives: when the job fails, no job is
\* queued for a deployment the attempt meant to preempt and left Running.
C28_StoreErrorLeavesNothing ==
    [][\A w \in Workers :
          /\ StoreErrorIn(w) => dep_status' = dep_status
          /\ JobFails(w) =>
                 /\ dep_status' = dep_status
                 /\ ~w_owner[w]
                 /\ \A p \in SeqToSet(w_preempt[w]) :
                        (/\ dep_status[p] = "running"
                         /\ \A w2 \in Workers \ {w} : p \notin SeqToSet(w_preempt[w2]))
                        => JobsQueued(p)' = 0]_vars

\* the job worker w holds was delivered for a deployment it loaded as Evicted
\* or Deleted
TerminalLoaded(w) == w_status[w] \in {"evicted", "deleted"}

\* C27 (as claimed): a scheduling attempt for a deployment whose status is
\* Evicted or Deleted never changes a deployment's status and never preempts
\* other deployments on its behalf.
C27_TerminalStatusesUntouched ==
    [][\A w \in Workers :
          (TerminalLoaded(w) /\ Steps(w)) =>
              /\ dep_status' = dep_status
              /\ w_preempt'[w] = <<>>]_vars

\* C30: can_fit_deployment(d, avail) is true exactly when d's ram, cpu and gpu
\* needs are each at most avail's, and calculate_used_resources is the
\* per-dimension sum of the needs: zero in every dimension for the empty list,
\* and for every prefix of the running list the sum of the shorter prefix plus
\* the need of its last deployment.
C30_ResourceArithmetic ==
    /\ \A a \in EnumCapacities \cup {Avail} :
           can_fit_deployment(candidate, a) <=>
               \A dim \in {"ram", "cpu", "gpu"} : candidate.resources[dim] <= a[dim]
    /\ calculate_used_resources(<<>>) = [ram |-> 0, cpu |-> 0, gpu |-> 0]
    /\ \A k \in 1..Len(Running) :
           \A dim \in {"ram", "cpu", "gpu"} :
               calculate_used_resources(SubSeq(Running, 1, k))[dim]
                   = calculate_used_resources(SubSeq(Running, 1, k - 1))[dim]
                         + Running[k].resources[dim]

\* C30 witness: the engine has decided on a snapshot with two running
\* deployments, one of them using a gpu, for a candidate that fits what is
\* free in ram and not in gpu.
C30_Witness ==
    /\ core_pc = "decided"
    /\ Len(Running) = 2
    /\ calculate_used_resources(Running).gpu = 1
    /\ candidate.resources.ram <= Avail.ram
    /\ candidate.resources.gpu > Avail.gpu
    /\ ~can_fit_deployment(candidate, Avail)

(***************************************************************************)
(* Properties of create_deployment.                                        *)
(***************************************************************************)
\* C25 (as claimed): in every committed state, also after two concurrent
\* create_deployment calls with the same cluster and name, at most one
\* deployment that is not Deleted has a given (cluster_id, name) pair.
C25_NameUniquePerCluster ==
    \A i, j \in 1..Len(rows) :
        (/\ i # j
         /\ rows[i].status # "deleted"
         /\ rows[j].status # "deleted"
         /\ rows[i].cluster_id = rows[j].cluster_id)
        => rows[i].name # rows[j].name

\* the argument values the validation has to refuse
InvalidValues(req) ==
    \/ req.ram <= 0
    \/ req.cpu <= 0
    \/ req.gpu < 0
    \/ req.priority < 1
    \/ req.priority > 5

\* the request's cluster is missing or not Active
ClusterUnusable(req) ==
    \/ req.cluster_id \notin Clusters
    \/ cluster_status[req.cluster_id] # "active"

\* C26: create_deployment with ram <= 0, cpu <= 0, gpu < 0, a priority
\* outside 1..5, or a cluster that is missing or not Active ends at its
\* validation with a validation error, creates no row and enqueues no job;
\* so every row has valid values and every job is the id of a row.
C26_InvalidCreateRejected ==
    [][/\ \A k \in Callers :
            (/\ api_pc[k] = "start"
             /\ api_pc'[k] # "start"
             /\ (InvalidValues(api_req[k]) \/ ClusterUnusable(api_req[k])))
            => /\ api_pc'[k] = "done"
               /\ api_out'[k] \in {"INVALID_RESOURCES", "INVALID_PRIORITY",
                                   "CLUSTER_NOT_FOUND"}
               /\ rows' = rows
               /\ queue' = queue
       /\ \A i \in 1..Len(rows') :
            /\ ~InvalidValues(rows'[i])
            /\ rows'[i].cluster_id \in Clusters
       /\ \A n \in 1..Len(queue') : queue'[n] \in 1..Len(rows')]_vars

\* C26 witness: a call whose only fault is a negative gpu count was rejected
\* while the other call created its deployment.
C26_Witness ==
    \E k1, k2 \in Callers :
        /\ api_req[k1].ram > 0
        /\ api_req[k1].cpu > 0
        /\ api_req[k1].gpu < 0
        /\ api_req[k1].priority = LOWEST
        /\ api_out[k1] = "INVALID_RESOURCES"
        /\ api_out[k2] = "created"
        /\ Len(rows) = 1
        /\ queue = <<1>>

\* C29 (as claimed): a newly created deployment is persisted Pending with a
\* job for its id on the queue when create_deployment returns, and after that
\* it is never Pending with no job: while it stays Pending no step other than
\* a job failing on a store error takes its last job away.
C29_CreatedHasJob ==
    [][\A d \in Deployments :
          /\ (d \in creating /\ d \notin creating') =>
                 (dep_status'[d] = "pending" /\ Queued(d)')
          /\ (/\ d \notin creating
              /\ dep_status[d] = "pending"
              /\ dep_status'[d] = "pending"
              /\ HasJob(d)
              /\ ~StoreErrorStep)
             => HasJob(d)']_vars

(***************************************************************************)
(* Further properties of the placement engine.                             *)
(***************************************************************************)
\* C31 (as claimed): the available capacity a decision works with is never
\* negative in any dimension, and a candidate is never admitted onto a
\* snapshot that stays over-committed after the admission: the candidate and
\* the running deployments that are not preempted fit the capacity.
C31_AvailNeverNegative ==
    core_pc = "decided" =>
        /\ \A dim \in {"ram", "cpu", "gpu"} : Avail[dim] >= 0
        /\ decision[1] =>
               \A dim \in {"ram", "cpu", "gpu"} :
                   candidate.resources[dim]
                       + calculate_used_resources(Survivors)[dim] <= Capacity[dim]

\* a call of the engine: the first one, or the second with the same arguments
FirstCall == core_pc = "input" /\ core_pc' = "decided"
SecondCall == core_pc = "decided" /\ core_pc' = "again"

ReleaseDeletes(w, c) ==
    /\ w_pc[w] \in {"release", "release_error"}
    /\ Steps(w)
    /\ ClusterOf(w) = c
    /\ lock[c]
    /\ ~lock'[c]

\* C37 (as claimed): a worker's release never removes a lock held by another
\* worker: it deletes the key only if its own acquisition is the one stored
\* under the key, also after its TTL has expired and another worker has
\* acquired the key.
C37_ReleaseOnlyOwnKey ==
    [][\A w \in Workers : \A c \in Clusters :
          ReleaseDeletes(w, c) => lock_by[c] = w]_vars

\* C37 (amended): as long as the key has not expired under a worker still
\* inside the section, a release deletes the key only if the releasing
\* worker's own acquisition is the one stored under it, and every worker that
\* owns a lock is the one whose acquisition is stored.
C37_ReleaseOwnKeyWithinTtl ==
    [][\A w \in Workers : \A c \in Clusters :
          /\ (ReleaseDeletes(w, c) /\ ~ttl_lapsed[c]) => lock_by[c] = w
          /\ (/\ ~ttl_lapsed[c]
              /\ w_owner[w]
              /\ w \in InsideSection(c)) => (lock[c] /\ lock_by[c] = w)]_vars

\* C37 witness: a worker is about to release the key it set, within the TTL,
\* while the other worker polls the same key.
C37_Witness ==
    \E c \in Clusters : \E w1, w2 \in Workers :
        /\ w_pc[w1] = "release"
        /\ ClusterOf(w1) = c
        /\ w_owner[w1]
        /\ lock[c]
        /\ lock_by[c] = w1
        /\ ~ttl_lapsed[c]
        /\ w_pc[w2] = "acquire"
        /\ ClusterOf(w2) = c

\* deployment p's committed status changes from Running to Pending in this step
BecomesPending(p) == dep_status[p] = "running" /\ dep_status'[p] = "pending"

\* C32 (as claimed): a deployment's committed status changes from Running to
\* Pending only in a commit in which a deployment of strictly higher priority
\* on the same cluster changes to Running.
C32_PendingOnlyByHigherAdmission ==
    [][\A p \in Deployments :
          BecomesPending(p) =>
              \E d \in Deployments :
                  /\ BecomesRunning(d)
                  /\ Catalogue[d].cluster_id = Catalogue[p].cluster_id
                  /\ Catalogue[d].priority > Catalogue[p].priority]_vars

(***************************************************************************)
(* Properties of the workers on the second cluster.                        *)
(***************************************************************************)
\* worker w's attempt decides to admit its candidate
AdmissionDecided(w) ==
    /\ w_pc[w] = "locked"
    /\ w_pc'[w] = "release"
    /\ w_scheduled'[w]

\* C40 (as claimed): when two workers process the same deployment, the attempt that
\* decides an admission finds the candidate's row not Running yet (so only
\* one of them admits it, and nothing is preempted for a candidate that is
\* already Running), and the candidate is not among the running deployments
\* of the snapshot it is placed against
C40_SameDeploymentAdmittedOnce ==
    [][\A w \in Workers :
          AdmissionDecided(w) =>
              /\ dep_status[w_dep[w]] # "running"
              /\ w_dep[w] \notin SeqToSet(IdsOf(
                     get_cluster_info(ClusterOf(w)).running_deployments))]_vars

(***************************************************************************)
(* Properties of the workers with jobs of both clusters.                   *)
(***************************************************************************)
\* worker w takes a step of its attempt for a deployment of cluster c
AttemptStep(w, c) ==
    /\ w_pc[w] # "idle"
    /\ w_pc'[w] # w_pc[w]
    /\ ClusterOf(w) = c

\* C33: a step of an attempt for a deployment of cluster c reads the running
\* rows of cluster c only, marks for preemption and changes the status of
\* deployments of cluster c only, and sets or deletes no lock key but that
\* of cluster c
C33_CrossClusterIndependence ==
    [][\A w \in Workers : \A c \in Clusters :
          AttemptStep(w, c) =>
              /\ w_pc[w] = "locked" =>
                    SeqToSet(IdsOf(get_cluster_info(c).running_deployments))
                        \subseteq DeploymentsOn(c)
              /\ SeqToSet(w_preempt'[w]) \subseteq DeploymentsOn(c)
              /\ \A d \in Deployments \ DeploymentsOn(c) :
                    dep_status'[d] = dep_status[d]
              /\ \A b \in Clusters \ {c} : lock'[b] = lock[b]]_vars

\* both workers are inside the with block at once, one for each cluster, each
\* holding its own key, while a deployment is running on either cluster
C33_Witness ==
    \E w1, w2 \in Workers :
        /\ w_pc[w1] = "locked" /\ w_pc[w2] = "locked"
        /\ ClusterOf(w1) # ClusterOf(w2)
        /\ lock_by[ClusterOf(w1)] = w1
        /\ lock_by[ClusterOf(w2)] = w2
        /\ \A c \in Clusters : RunningOn(c) # <<>>

\* deployment d is Pending on an active cluster and the placement engine
\* refuses it against the committed running set
CannotBePlaced(d) ==
    /\ dep_status[d] = "pending"
    /\ cluster_status[Catalogue[d].cluster_id] = "active"
    /\ ~can_schedule_deployment(get_deployment_info(d),
                                get_cluster_info(Catalogue[d].cluster_id))[1]

\* C34 (as claimed): while a deployment is Pending on an active cluster and cannot be
\* placed, no step of the worker that was delivered its job, other than a job
\* failing on a store error, ends the retry chain: after the step the worker
\* still processes the job or the deployment's id is on the queue again
C34_RetryChainContinues ==
    [][\A w \in Workers : \A d \in Deployments :
          (/\ w_dep[w] = d
           /\ Steps(w)
           /\ ~StoreErrorStep
           /\ CannotBePlaced(d)
           /\ CannotBePlaced(d)')
          => (w_dep'[w] = d \/ Queued(d)')]_vars

(***************************************************************************)
(* Further properties of create_deployment.                                *)
(***************************************************************************)
\* C36 (as claimed): a create_deployment call that finds a row of the same cluster and
\* name which is not Deleted adds no row and returns the existing one; when
\* that row is Pending and has no job, the call completes with the row's id
\* on the queue, otherwise it leaves the queue as it is
C36_ExistingNameReturnsExisting ==
    [][\A k \in Callers :
          (/\ api_pc[k] = "validated"
           /\ api_pc'[k] # "validated"
           /\ ExistingRows(api_req[k]) # {})
          => LET i == FirstRow(ExistingRows(api_req[k]))
             IN  /\ rows' = rows
                 /\ api_out'[k] = "existing"
                 /\ IF rows[i].status = "pending" /\ i \notin SeqToSet(queue)
                    THEN i \in SeqToSet(queue')
                    ELSE queue' = queue]_vars

(***************************************************************************)
(* Termination of preemption.                                              *)
(***************************************************************************)
\* C38: every execution contains finitely many admissions and preemptions:
\* from some point on no step changes the status of any deployment
C38_StatusesEventuallyStable ==
    <>[][dep_status' = dep_status]_vars

\* a deployment that a worker loaded as Running has been preempted since and
\* waits, Pending, for a retry, while a deployment of higher priority runs
C38_Witness ==
    \E w \in Workers : \E p, d \in Deployments :
        /\ w_dep[w] = p
        /\ w_status[w] = "running"
        /\ dep_status[p] = "pending"
        /\ Queued(p)
        /\ dep_status[d] = "running"
        /\ Catalogue[d].cluster_id = Catalogue[p].cluster_id
        /\ Catalogue[d].priority > Catalogue[p].priority

(***************************************************************************)
(* Progress under weak fairness.                                           *)
(***************************************************************************)
\* C39 (as claimed): the system eventually reaches and stays in a state where every
\* deployment that is still Pending is one the placement engine refuses
\* against the committed running set
C39_ProgressToStablePlacement ==
    <>[](\A d \in Deployments : dep_status[d] = "pending" => CannotBePlaced(d))

====
